---- MODULE Spec2Model ----
(***************************************************************************)
(* Model of the country-comparison utilities of solar-challenge-week0:     *)
(* ComparisionUtils.combine_country_data and                               *)
(* ComparisionUtils.generate_summary_stats                                  *)
(* (src/src/country_comparision_utils.py).                                 *)
(*                                                                         *)
(* DataFrames are objects on a heap, referred to by their position, so that *)
(* a call that writes to an argument is visible to its caller.  A call is   *)
(* one action: it draws its arguments from bounded sets, runs the whole     *)
(* method and records what the method returned or raised and what it        *)
(* logged.                                                                  *)
(***************************************************************************)
EXTENDS Integers, Sequences, FiniteSets, TLC

VARIABLES heap, call, outcome, log

vars == <<heap, call, outcome, log>>

(* ------------------------------ bounds --------------------------------- *)

\* Largest number of entries of a country_data mapping.
MaxEntries == 2
\* Largest number of rows of an input DataFrame.
MaxRows == 2
\* Largest number of names in a metrics list.
MaxMetrics == 2

(* ------------------------------ values --------------------------------- *)

\* A cell of a DataFrame: a number, a string, or the missing-value marker.
Num(n) == [kind |-> "num", num |-> n, str |-> ""]
Str(s) == [kind |-> "str", num |-> 0, str |-> s]
NaN == [kind |-> "nan", num |-> 0, str |-> ""]

\* A dictionary key: its Python type and its text (what str() gives).
StrKey(s) == [type |-> "str", text |-> s]
IntKey(s) == [type |-> "int", text |-> s]

\* The keys the mappings are built from: the empty string, two site names
\* and the integer 123 of test_non_string_country_key.
Keys == {StrKey(""), StrKey("Benin"), StrKey("Togo"), IntKey("123")}

\* The column labels input tables are built from.
ColumnLists ==
  {<<>>, <<"GHI">>, <<"GHI", "DNI">>, <<"country", "GHI">>, <<"country", "GHI", "DNI">>}

\* Row labels of an input table: the default labels 0..n-1 of a table of n
\* rows, and the labels 1..MaxRows of a table that lost its first row.
IndexLists ==
  {[i \in 1..n |-> i - 1] : n \in 0..MaxRows} \cup {[i \in 1..MaxRows |-> i]}

\* The cell an input table holds in row label r of column c: distinct per
\* row and per column, with a zero and a missing value among them.
InputCell(c, r) ==
  IF c = "country" THEN (IF r % 2 = 0 THEN Str("Togo") ELSE Str("Benin"))
  ELSE IF c = "GHI" THEN Num(r)
  ELSE IF r = 0 THEN NaN ELSE Num(10 + r)

\* pd.DataFrame: column labels, row labels, and one row (column -> cell) per
\* row label.
DataFrame(columns, index, data) ==
  [type |-> "DataFrame", columns |-> columns, index |-> index, data |-> data]

Range(s) == {s[i] : i \in DOMAIN s}

InputTable(columns, index) ==
  DataFrame(columns, index,
            [i \in DOMAIN index |->
               [c \in Range(columns) |-> InputCell(c, index[i])]])

\* A value that is not a DataFrame (the "not_a_df" of test_non_dataframe_value).
NotADataFrame == [type |-> "str", columns |-> <<>>, index |-> <<>>, data |-> <<>>]

InputObjects ==
  {InputTable(cl, il) : cl \in ColumnLists, il \in IndexLists} \cup {NotADataFrame}

\* The references to the objects the caller holds before the call: two, so
\* that a mapping can hold two different tables or the same table twice.
InputRefs == {1, 2}
NumInputs == Cardinality(InputRefs)

\* A reference that refers to nothing: Python's None.
None == 0

(* ------------------------------ logging -------------------------------- *)

\* A message: its template and the values formatted into it, each a list of
\* strings (a single string is a list of one).
Msg(template, args) == [template |-> template, args |-> args]

\* A log record: its level, and the message, after `prefix` when the record
\* reports an exception e as f"<prefix>{e}".
LogRecord(level, prefix, msg) == [level |-> level, prefix |-> prefix, msg |-> msg]
Info(msg) == LogRecord("INFO", "", msg)
Error(msg) == LogRecord("ERROR", "", msg)

\* raise ValueError(msg)
ValueError(msg) == [type |-> "ValueError", msg |-> msg]
NoException == [type |-> "", msg |-> Msg("", <<>>)]

(* -------------------------- pandas operations -------------------------- *)

\* isinstance(country, str)
IsStr(country) == country.type = "str"

\* isinstance(df, pd.DataFrame)
IsDataFrame(obj) == obj.type = "DataFrame"

\* DataFrame.empty: true when any axis has length 0.
Empty(df) == Len(df.index) = 0 \/ Len(df.columns) = 0

\* df.copy(): a new object with the same contents.
DfCopyShared(h, ref) == [heap |-> h, ref |-> ref]
DfCopy(h, ref) == [heap |-> Append(h, h[ref]), ref |-> Len(h) + 1]

\* df[col] = value: every row gets `value` in column col; a new column goes
\* last, an existing one keeps its place.
SetItemKeep(df, col, value) ==
  IF col \in Range(df.columns) THEN df
  ELSE DataFrame(Append(df.columns, col), df.index,
                 [i \in DOMAIN df.data |->
                    [c \in Range(df.columns) \cup {col} |->
                       IF c = col THEN value ELSE df.data[i][c]]])
SetItem(df, col, value) ==
  DataFrame(IF col \in Range(df.columns) THEN df.columns ELSE Append(df.columns, col),
            df.index,
            [i \in DOMAIN df.data |->
               [c \in Range(df.columns) \cup {col} |->
                  IF c = col THEN value ELSE df.data[i][c]]])

\* The labels of `more` that `seen` lacks, in their order in `more`.
RECURSIVE NewLabels(_, _)
NewLabels(seen, more) ==
  IF more = <<>> THEN <<>>
  ELSE IF Head(more) \in Range(seen) THEN NewLabels(seen, Tail(more))
  ELSE <<Head(more)>> \o NewLabels(Append(seen, Head(more)), Tail(more))

\* The union of the column labels of the tables, in order of first appearance.
RECURSIVE UnionColumns(_)
UnionColumns(tables) ==
  IF tables = <<>> THEN <<>>
  ELSE LET rest == UnionColumns(SubSeq(tables, 1, Len(tables) - 1))
       IN rest \o NewLabels(rest, tables[Len(tables)].columns)

\* The rows of the tables one after the other, in the order of the tables.
RECURSIVE ConcatRowsReversed(_)
ConcatRowsReversed(tables) ==
  IF tables = <<>> THEN <<>>
  ELSE ConcatRowsReversed(Tail(tables)) \o tables[1].data
RECURSIVE ConcatRows(_)
ConcatRows(tables) ==
  IF tables = <<>> THEN <<>>
  ELSE tables[1].data \o ConcatRows(Tail(tables))

\* The value concat puts in a cell no input has.
FillZero == Num(0)
Fill == NaN

\* The row labels of the result of concat(..., ignore_index=True).
ResultIndex(tables) == [i \in 1..Len(ConcatRows(tables)) |-> i - 1]

\* pd.concat(dfs, ignore_index=True) of one or more tables: the columns are
\* the union of the tables' columns (join="outer").
Concat(tables) ==
  LET columns == UnionColumns(tables)
      rows == ConcatRows(tables)
  IN DataFrame(columns, ResultIndex(tables),
               [i \in DOMAIN rows |->
                  [c \in Range(columns) |->
                     IF c \in DOMAIN rows[i] THEN rows[i][c] ELSE Fill]])

(* ------------------------ combine_country_data ------------------------- *)

\* The message of the key check.
KeyMessage(country) == Msg("Country name must be a string.", <<>>)
\* The message of the value check.
ValueMessageOfKey(country) == Msg("Country name must be a string.", <<>>)
ValueMessage(country) == Msg("Value must be a pandas DataFrame.", <<>>)
\* The message of the emptiness check.
EmptyMessageBare(country) == Msg("DataFrame is empty.", <<>>)
EmptyMessage(country) == Msg("DataFrame for {country} is empty.", << <<country.text>> >>)

\* The checks of one entry, in the order of the code: the first that fails
\* gives the message, NoCheckFails when all pass.
NoCheckFails == Msg("", <<>>)
EntryCheckNoEmpty(h, country, df) ==
  IF ~IsStr(country) THEN KeyMessage(country)
  ELSE IF ~IsDataFrame(h[df]) THEN ValueMessage(country)
  ELSE NoCheckFails
EntryCheckAnyKey(h, country, df) ==
  IF ~IsDataFrame(h[df]) THEN ValueMessage(country)
  ELSE IF Empty(h[df]) THEN EmptyMessage(country)
  ELSE NoCheckFails
EntryCheckKeyLast(h, country, df) ==
  IF ~IsDataFrame(h[df]) THEN ValueMessage(country)
  ELSE IF Empty(h[df]) THEN EmptyMessage(country)
  ELSE IF ~IsStr(country) THEN KeyMessage(country)
  ELSE NoCheckFails
EntryCheck(h, country, df) ==
  IF ~IsStr(country) THEN KeyMessage(country)
  ELSE IF ~IsDataFrame(h[df]) THEN ValueMessage(country)
  ELSE IF Empty(h[df]) THEN EmptyMessage(country)
  ELSE NoCheckFails

\* The for loop: entries i.. of country_data, with the heap, the list dfs and
\* the log as they stand.  It ends at the first entry that fails a check.
\* (CHOOSE over a one-element set names a value that is computed once.)
RECURSIVE CombineLoop(_, _, _, _, _)
CombineLoop(country_data, i, h, dfs, lg) ==
  IF i > Len(country_data)
  THEN [heap |-> h, dfs |-> dfs, log |-> lg, exc |-> NoException]
  ELSE LET country == country_data[i].key
           df == country_data[i].value
           failed == EntryCheck(h, country, df)
       IN IF failed # NoCheckFails
          THEN [heap |-> h, dfs |-> dfs,
                log |-> Append(lg, Error(failed)),
                exc |-> ValueError(failed)]
          ELSE LET copy == DfCopy(h, df)
                   tagged == [copy.heap EXCEPT
                                ![copy.ref] = SetItem(@, "country", Str(country.text))]
               IN CHOOSE looped \in {CombineLoop(country_data, i + 1, t,
                                                  Append(dfs, copy.ref), lg) :
                                      t \in {tagged}} : TRUE

\* The body of the try block after the loop: concat raises on an empty list.
CombineAfterLoop(looped) ==
  LET valid == Append(looped.log, Info(Msg("All data is valid.", <<>>)))
      nothing == Msg("No objects to concatenate", <<>>)
  IN IF looped.exc # NoException THEN looped @@ [ret |-> None]
     ELSE IF looped.dfs = <<>>
     THEN [heap |-> looped.heap, dfs |-> looped.dfs, log |-> valid,
           exc |-> ValueError(nothing), ret |-> None]
     ELSE [heap |-> Append(looped.heap,
                           CHOOSE df \in {Concat(tables) :
                                            tables \in {[i \in DOMAIN looped.dfs |->
                                                           looped.heap[looped.dfs[i]]]}} : TRUE),
           dfs |-> looped.dfs,
           log |-> Append(valid, Info(Msg("Data combined successfully.", <<>>))),
           exc |-> NoException,
           ret |-> Len(looped.heap) + 1]
CombineTry(h, country_data) ==
  CHOOSE tried \in {CombineAfterLoop(looped) :
                      looped \in {CombineLoop(country_data, 1, h, <<>>, <<>>)}} : TRUE

\* The whole method: the except clause logs the error and raises it again.
combine_country_data(h, country_data) ==
  LET tried == CombineTry(h, country_data)
  IN IF tried.exc = NoException THEN tried
     ELSE [tried EXCEPT
             !.log = Append(@, LogRecord("ERROR", "Error combining country data: ",
                                         tried.exc.msg))]

(* ----------------------- generate_summary_stats ------------------------ *)

\* The names the metrics lists are built from; no input table has "DHI".
MetricNames == {"GHI", "DNI", "DHI"}

\* The statistics groupby().agg() knows, among those the stats lists name.
KnownStats == {"mean", "median", "std", "max"}

\* f"{metric}_{stat}" for the metric and statistic names of the model.
FlatName(metric, stat) ==
  CASE metric = "GHI" /\ stat = "mean" -> "GHI_mean"
    [] metric = "GHI" /\ stat = "median" -> "GHI_median"
    [] metric = "GHI" /\ stat = "std" -> "GHI_std"
    [] metric = "GHI" /\ stat = "max" -> "GHI_max"
    [] metric = "DNI" /\ stat = "mean" -> "DNI_mean"
    [] metric = "DNI" /\ stat = "median" -> "DNI_median"
    [] metric = "DNI" /\ stat = "std" -> "DNI_std"
    [] metric = "DNI" /\ stat = "max" -> "DNI_max"
    [] metric = "DHI" /\ stat = "mean" -> "DHI_mean"
    [] metric = "DHI" /\ stat = "median" -> "DHI_median"
    [] metric = "DHI" /\ stat = "std" -> "DHI_std"
    [] metric = "DHI" /\ stat = "max" -> "DHI_max"

\* The site names in ascending order, as groupby sorts its keys.
SortedNames == <<"", "Benin", "Sierra Leone", "Togo">>

\* The group keys of groupby(country_col): the distinct non-missing values of
\* the column, ascending.
GroupKeys(df, country_col) ==
  SelectSeq(SortedNames,
            LAMBDA k : \E i \in DOMAIN df.data : df.data[i][country_col] = Str(k))

\* The statistic `stat` of column `metric` over the rows of group `key`: the
\* model keeps the statistic's name and the number of non-missing values it
\* is computed over, not its numeric value; it is missing when there is no
\* such value (or one only, for std).
Aggregate(df, country_col, key, metric, stat) ==
  LET over == {i \in DOMAIN df.data :
                 /\ df.data[i][country_col] = Str(key)
                 /\ df.data[i][metric] # NaN}
      n == Cardinality(over)
  IN IF n = 0 \/ (stat = "std" /\ n = 1) THEN NaN
     ELSE [kind |-> "agg", num |-> n, str |-> stat]

\* The (metric, stat) pairs of the columns of groupby()[metrics].agg(stats),
\* metric by metric.
RECURSIVE MetricStatPairs(_, _)
MetricStatPairs(metrics, stats) ==
  IF metrics = <<>> THEN <<>>
  ELSE [j \in DOMAIN stats |-> <<Head(metrics), stats[j]>>]
         \o MetricStatPairs(Tail(metrics), stats)

\* df.groupby(country_col)[metrics].agg(stats).round(2), its columns
\* flattened, after reset_index().
SummaryTableNoResetIndex(df, metrics, stats, country_col) ==
  LET keys == GroupKeys(df, country_col)
      pairs == MetricStatPairs(metrics, stats)
      columns == [j \in DOMAIN pairs |-> FlatName(pairs[j][1], pairs[j][2])]
  IN DataFrame(columns, [g \in DOMAIN keys |-> g - 1],
               [g \in DOMAIN keys |->
                  [c \in Range(columns) |->
                     LET j == CHOOSE j \in DOMAIN pairs :
                                FlatName(pairs[j][1], pairs[j][2]) = c
                     IN Aggregate(df, country_col, keys[g], pairs[j][1], pairs[j][2])]])
SummaryTable(df, metrics, stats, country_col) ==
  LET keys == GroupKeys(df, country_col)
      pairs == MetricStatPairs(metrics, stats)
      columns == <<country_col>> \o [j \in DOMAIN pairs |-> FlatName(pairs[j][1], pairs[j][2])]
  IN DataFrame(columns, [g \in DOMAIN keys |-> g - 1],
               [g \in DOMAIN keys |->
                  [c \in Range(columns) |->
                     IF c = country_col THEN Str(keys[g])
                     ELSE LET j == CHOOSE j \in DOMAIN pairs :
                                     FlatName(pairs[j][1], pairs[j][2]) = c
                          IN Aggregate(df, country_col, keys[g], pairs[j][1], pairs[j][2])]])

\* missing_metrics = [m for m in metrics if m not in df.columns]
MissingMetricsFirst(df, metrics) ==
  LET missing == SelectSeq(metrics, LAMBDA m : m \notin Range(df.columns))
  IN IF missing = <<>> THEN <<>> ELSE <<Head(missing)>>
MissingMetrics(df, metrics) ==
  SelectSeq(metrics, LAMBDA m : m \notin Range(df.columns))

\* The input validation, in the order of the code: the message of the first
\* check that fails, NoCheckFails when all pass.
ValidateNoEmptyCheck(obj, metrics, country_col) ==
  IF ~IsDataFrame(obj) THEN Msg("Input must be a pandas DataFrame", <<>>)
  ELSE IF country_col \notin Range(obj.columns)
  THEN Msg("Country column '{country_col}' not found in DataFrame", << <<country_col>> >>)
  ELSE IF MissingMetrics(obj, metrics) # <<>>
  THEN Msg("Metrics not found in DataFrame: {missing_metrics}",
           <<MissingMetrics(obj, metrics)>>)
  ELSE NoCheckFails
Validate(obj, metrics, country_col) ==
  IF ~IsDataFrame(obj) THEN Msg("Input must be a pandas DataFrame", <<>>)
  ELSE IF Empty(obj) THEN Msg("DataFrame is empty", <<>>)
  ELSE IF country_col \notin Range(obj.columns)
  THEN Msg("Country column '{country_col}' not found in DataFrame", << <<country_col>> >>)
  ELSE IF MissingMetrics(obj, metrics) # <<>>
  THEN Msg("Metrics not found in DataFrame: {missing_metrics}",
           <<MissingMetrics(obj, metrics)>>)
  ELSE NoCheckFails

\* The try block: validation, then the aggregation, which raises
\* AttributeError on a statistic it does not know.
SummaryTrySkipUnknown(h, df, metrics, stats, country_col) ==
  LET failed == Validate(h[df], metrics, country_col)
      start == <<Info(Msg("Generating summary stats for metrics: {metrics} using aggregations: {stats}",
                          <<metrics, stats>>))>>
      known == SelectSeq(stats, LAMBDA s : s \in KnownStats)
  IN IF failed # NoCheckFails
     THEN [heap |-> h, log |-> <<>>, exc |-> ValueError(failed), ret |-> None]
     ELSE [heap |-> Append(h, SummaryTable(h[df], metrics, known, country_col)),
           log |-> Append(start, Info(Msg("Successfully generated summary stats", <<>>))),
           exc |-> NoException,
           ret |-> Len(h) + 1]
SummaryTry(h, df, metrics, stats, country_col) ==
  LET failed == Validate(h[df], metrics, country_col)
      start == <<Info(Msg("Generating summary stats for metrics: {metrics} using aggregations: {stats}",
                          <<metrics, stats>>))>>
      unknown == SelectSeq(stats, LAMBDA s : s \notin KnownStats)
  IN IF failed # NoCheckFails
     THEN [heap |-> h, log |-> <<>>, exc |-> ValueError(failed), ret |-> None]
     ELSE IF unknown # <<>>
     THEN [heap |-> h, log |-> start,
           exc |-> [type |-> "AttributeError",
                    msg |-> Msg("'SeriesGroupBy' object has no attribute '{stat}'",
                                << <<Head(unknown)>> >>)],
           ret |-> None]
     ELSE [heap |-> Append(h, SummaryTable(h[df], metrics, stats, country_col)),
           log |-> Append(start, Info(Msg("Successfully generated summary stats", <<>>))),
           exc |-> NoException,
           ret |-> Len(h) + 1]

\* The whole method: both except clauses log the error and fall off the end
\* of the method, which returns None.
generate_summary_stats(h, df, metrics, stats, country_col) ==
  LET tried == SummaryTry(h, df, metrics, stats, country_col)
  IN IF tried.exc = NoException THEN tried
     ELSE [tried EXCEPT
             !.log = Append(@, LogRecord("ERROR",
                                         IF tried.exc.type = "ValueError"
                                         THEN "Input validation error: "
                                         ELSE "Unexpected error generating summary stats: ",
                                         tried.exc.msg)),
             !.exc = NoException]

(* ------------------------------ load_csv ------------------------------- *)

\* The paths a caller can pass: three data files, a path nothing exists at,
\* the data directory itself, a file of zero bytes and a file that holds a
\* header line only.
Paths ==
  {"data/benin.csv", "data/togo.csv", "data/sierraleone.csv",
   "data/missing.csv", "data", "data/zero.csv", "data/header.csv"}

\* What is on disk at a path: nothing, a directory, or a file with its
\* header fields and the fields of its lines, as text.
DiskEntry(kind, header, lines) == [kind |-> kind, header |-> header, lines |-> lines]
Disk(path) ==
  CASE path = "data/benin.csv" ->
         DiskEntry("file", <<"GHI", "DNI", "DHI">>, << <<"1", "11", "21">>, <<"2", "", "22">> >>)
    [] path = "data/togo.csv" ->
         DiskEntry("file", <<"GHI", "Comments">>, << <<"3", "cloudy">>, <<"4", "7">> >>)
    [] path = "data/sierraleone.csv" ->
         DiskEntry("file", <<"GHI", "DNI">>, << <<"5", "12">>, <<"6", "13">> >>)
    [] path = "data/header.csv" -> DiskEntry("file", <<"GHI", "DNI">>, <<>>)
    [] path = "data/zero.csv" -> DiskEntry("file", <<>>, <<>>)
    [] path = "data" -> DiskEntry("dir", <<>>, <<>>)
    [] OTHER -> DiskEntry("missing", <<>>, <<>>)

\* os.path.exists(filepath).
Exists(path) == Disk(path).kind # "missing"

\* The number a field of text denotes, for the fields that denote one.
NumericText ==
  {"1", "2", "3", "4", "5", "6", "7", "11", "12", "13", "21", "22"}
ParseNumber(text) ==
  CASE text = "1" -> 1 [] text = "2" -> 2 [] text = "3" -> 3 [] text = "4" -> 4
    [] text = "5" -> 5 [] text = "6" -> 6 [] text = "7" -> 7
    [] text = "11" -> 11 [] text = "12" -> 12 [] text = "13" -> 13
    [] text = "21" -> 21 [] text = "22" -> 22

\* The cell read_csv makes of a field: an empty field is missing; in a column
\* all of whose other fields are numbers the field is a number, in any other
\* column it stays text.
ParseField(file, j, text) ==
  IF text = "" THEN NaN
  ELSE IF \A i \in DOMAIN file.lines :
            file.lines[i][j] = "" \/ file.lines[i][j] \in NumericText
       THEN Num(ParseNumber(text))
       ELSE Str(text)

\* pd.read_csv of a readable file with a header line: the header's labels,
\* the row labels 0..n-1 and the parsed fields.
ReadCsv(file) ==
  DataFrame(file.header, [i \in DOMAIN file.lines |-> i - 1],
            [i \in DOMAIN file.lines |->
               [c \in Range(file.header) |->
                  LET j == CHOOSE j \in DOMAIN file.header : file.header[j] = c
                  IN ParseField(file, j, file.lines[i][j])]])

\* pd.read_csv raises on a directory (IsADirectoryError) and on a file with
\* no header line (EmptyDataError).
ReadRaises(path) == Disk(path).kind = "dir" \/ Disk(path).header = <<>>

\* str(n) for the row and column counts of the model.
ToStr(n) ==
  CASE n = 0 -> "0" [] n = 1 -> "1" [] n = 2 -> "2" [] n = 3 -> "3" [] OTHER -> "4"

\* load_csv(filepath): the loaded table is a new object on the heap (the
\* marker emoji of the log lines are left out).
load_csv_unguarded(h, filepath) ==
  IF ~Exists(filepath)
  THEN [heap |-> h, exc |-> NoException, ret |-> None,
        log |-> <<Error(Msg("File does not exist: {filepath}", << <<filepath>> >>))>>]
  ELSE [heap |-> Append(h, ReadCsv(Disk(filepath))), exc |-> NoException,
        ret |-> Len(h) + 1,
        log |-> <<Info(Msg("Successfully loaded data from {filepath} with shape {df.shape}",
                           << <<filepath>>,
                              <<ToStr(Len(Disk(filepath).lines)),
                                ToStr(Len(Disk(filepath).header))>> >>))>>]
load_csv(h, filepath) ==
  IF ~Exists(filepath)
  THEN [heap |-> h, exc |-> NoException, ret |-> None,
        log |-> <<Error(Msg("File does not exist: {filepath}", << <<filepath>> >>))>>]
  ELSE IF ReadRaises(filepath)
  THEN [heap |-> h, exc |-> NoException, ret |-> None,
        log |-> <<Error(Msg("Failed to load data from {filepath}", << <<filepath>> >>))>>]
  ELSE [heap |-> Append(h, ReadCsv(Disk(filepath))), exc |-> NoException,
        ret |-> Len(h) + 1,
        log |-> <<Info(Msg("Successfully loaded data from {filepath} with shape {df.shape}",
                           << <<filepath>>,
                              <<ToStr(Len(Disk(filepath).lines)),
                                ToStr(Len(Disk(filepath).header))>> >>))>>]

(* ---------------------------- perform_anova ---------------------------- *)

\* group[value_col].dropna() of the group `key`: the non-missing cells of the
\* column in the group's rows, in row order.
Sample(df, group_col, key, value_col) ==
  LET rows == SelectSeq(df.data, LAMBDA row : row[group_col] = Str(key)
                                              /\ row[value_col] # NaN)
  IN [i \in DOMAIN rows |-> rows[i][value_col]]

\* The (f_stat, p_value) pair perform_anova returns: (None, None), (nan, nan),
\* or the statistics of the F-test over `samples` (kept as the samples, not
\* as numbers).
AnovaPair(kind, samples) == [type |-> "tuple", kind |-> kind, samples |-> samples]

\* scipy.stats.f_oneway(*samples): raises TypeError on fewer than two
\* samples and on values that are not numbers; warns and gives (nan, nan)
\* when a sample is empty or every sample has one value.
f_oneway(samples) ==
  IF Len(samples) < 2
  THEN [exc |-> [type |-> "TypeError",
                 msg |-> Msg("at least two inputs are required; got {n}.",
                             << <<ToStr(Len(samples))>> >>)],
        pair |-> AnovaPair("none", <<>>)]
  ELSE IF \E g \in DOMAIN samples : \E i \in DOMAIN samples[g] : samples[g][i].kind = "str"
  THEN [exc |-> [type |-> "TypeError", msg |-> Msg("unsupported operand type(s)", <<>>)],
        pair |-> AnovaPair("none", <<>>)]
  ELSE IF \/ \E g \in DOMAIN samples : samples[g] = <<>>
          \/ \A g \in DOMAIN samples : Len(samples[g]) = 1
  THEN [exc |-> NoException, pair |-> AnovaPair("nan", <<>>)]
  ELSE [exc |-> NoException, pair |-> AnovaPair("stat", samples)]

\* The try block up to f_oneway: KeyError when the group column is missing,
\* or the value column is and there is a group to take it from.
AnovaTry(obj, group_col, value_col) ==
  IF ~IsDataFrame(obj)
  THEN [exc |-> [type |-> "AttributeError", msg |-> Msg("groupby", <<>>)],
        pair |-> AnovaPair("none", <<>>)]
  ELSE IF group_col \notin Range(obj.columns)
  THEN [exc |-> [type |-> "KeyError", msg |-> Msg("{key}", << <<group_col>> >>)],
        pair |-> AnovaPair("none", <<>>)]
  ELSE LET keys == GroupKeys(obj, group_col)
       IN IF value_col \notin Range(obj.columns) /\ keys # <<>>
          THEN [exc |-> [type |-> "KeyError", msg |-> Msg("{key}", << <<value_col>> >>)],
                pair |-> AnovaPair("none", <<>>)]
          ELSE f_oneway([g \in DOMAIN keys |-> Sample(obj, group_col, keys[g], value_col)])

\* print(...) of the interpretation; `significant` tells whether the p-value
\* of a computed statistic is below 0.05, and nan < 0.05 is false.
Interpretation(pair, significant, value_col, group_col) ==
  LogRecord("STDOUT", "",
            Msg(IF pair.kind = "stat" /\ significant
                THEN "Significant differences detected in '{value_col}' between groups in '{group_col}'."
                ELSE "No significant differences found in '{value_col}' between groups in '{group_col}'.",
                << <<value_col>>, <<group_col>> >>))

\* The whole method: the except clause logs the error and returns
\* (None, None); the pair is a new object on the heap.
perform_anova(h, df, group_col, value_col, interpret, significant) ==
  LET tried == AnovaTry(h[df], group_col, value_col)
      performed == Info(Msg("ANOVA test performed on '{value_col}' grouped by '{group_col}'.",
                            << <<value_col>>, <<group_col>> >>))
  IN [heap |-> Append(h, tried.pair),
      exc |-> NoException,
      ret |-> Len(h) + 1,
      log |-> IF tried.exc # NoException
              THEN <<LogRecord("ERROR", "ANOVA test failed: ", tried.exc.msg)>>
              ELSE IF interpret
              THEN <<performed, Interpretation(tried.pair, significant, value_col, group_col)>>
              ELSE <<performed>>]

(* ------------------------------ dashboard ------------------------------ *)

\* A Streamlit element written to the page.
Page(element, text) == LogRecord(element, "", Msg(text, <<>>))

\* df[col].dtype == 'object': the column holds text.
ObjectDtype(df, col) == \E i \in DOMAIN df.data : df.data[i][col].kind = "str"

\* pd.to_numeric(errors='coerce') of a cell: text that denotes a number
\* becomes the number, any other text a missing value.
ToNumeric(cell) ==
  IF cell.kind # "str" THEN cell
  ELSE IF cell.str \in NumericText THEN Num(ParseNumber(cell.str))
  ELSE NaN

\* The loop of boxplot_by_country over df.columns: every object column other
\* than the group column and 'Timestamp' is assigned its numeric coercion.
CoerceColumns(df, group_col) ==
  DataFrame(df.columns, df.index,
            [i \in DOMAIN df.data |->
               [c \in Range(df.columns) |->
                  IF c # group_col /\ c # "Timestamp" /\ ObjectDtype(df, c)
                  THEN ToNumeric(df.data[i][c])
                  ELSE df.data[i][c]]])

\* df.select_dtypes(include=np.number).columns
NumericCols(df) == SelectSeq(df.columns, LAMBDA c : ~ObjectDtype(df, c))

\* boxplot_by_country(df, group_col): the coercion assigns into the caller's
\* table; the plot is drawn for the default selection, the first numeric
\* column.
boxplot_by_country(h, df, group_col) ==
  IF Empty(h[df])
  THEN [heap |-> h, exc |-> NoException, ret |-> None,
        log |-> <<Page("st.warning", "DataFrame is empty.")>>]
  ELSE IF group_col \notin Range(h[df].columns)
  THEN [heap |-> h, exc |-> NoException, ret |-> None,
        log |-> <<Page("st.error", "'Country' column not found in the dataset.")>>]
  ELSE LET coerced == CoerceColumns(h[df], group_col)
       IN [heap |-> [h EXCEPT ![df] = coerced], exc |-> NoException, ret |-> None,
           log |-> IF NumericCols(coerced) = <<>>
                   THEN <<Page("st.warning", "Please select at least one numeric column to plot.")>>
                   ELSE <<Page("st.pyplot", "{col} by {group_col}")>>]

\* write_summary_table(df, group_col): selecting ['GHI', 'DNI', 'DHI'] raises
\* KeyError when the table lacks one of them.
write_summary_table(h, df, group_col) ==
  IF Empty(h[df])
  THEN [heap |-> h, exc |-> NoException, ret |-> None,
        log |-> <<Page("st.warning", "DataFrame is empty.")>>]
  ELSE IF group_col \notin Range(h[df].columns)
  THEN [heap |-> h, exc |-> NoException, ret |-> None,
        log |-> <<Page("st.error", "'Country' column not found in the dataset.")>>]
  ELSE IF ~({"GHI", "DNI", "DHI"} \subseteq Range(h[df].columns))
  THEN [heap |-> h, ret |-> None, log |-> <<>>,
        exc |-> [type |-> "KeyError",
                 msg |-> Msg("Columns not found: {missing}",
                             << SelectSeq(<<"GHI", "DNI", "DHI">>,
                                          LAMBDA c : c \notin Range(h[df].columns)) >>)]]
  ELSE [heap |-> h, exc |-> NoException, ret |-> None,
        log |-> <<Page("st.write", "summary")>>]

\* map(load_csv, country_filename_pairs.values()) filtered for presence:
\* the files are loaded in iteration order and the tables that are not None
\* are kept, in that order.
\* Each load_csv call logs one record and adds at most one object.
LoadEach(pairs, h) ==
  LET present == SelectSeq(pairs, LAMBDA pair : load_csv(h, pair.value).ret # None)
  IN [heap |-> h \o [k \in DOMAIN present |->
                       LET done == load_csv(h, present[k].value)
                       IN done.heap[done.ret]],
      dataframes |-> [k \in DOMAIN present |-> Len(h) + k],
      log |-> [i \in DOMAIN pairs |-> load_csv(h, pairs[i].value).log[1]]]

\* zip(country_filename_pairs.keys(), dataframes): the i-th key with the i-th
\* kept table, as many entries as the shorter of the two has.
ZipKeys(pairs, dataframes) ==
  [i \in 1..(IF Len(pairs) < Len(dataframes) THEN Len(pairs) ELSE Len(dataframes)) |->
     [key |-> pairs[i].key, value |-> dataframes[i]]]

\* load_and_combine_each_country_data(country_filename_pairs); an error
\* combine_country_data raises is not caught.
load_and_combine_each_country_data(h, pairs) ==
  LET each == LoadEach(pairs, h)
      counted == Append(each.log, Info(Msg("Loaded {n} dataframes.",
                                           << <<ToStr(Len(each.dataframes))>> >>)))
      made == Info(Msg("Comparsion Utility Class Initialized.", <<>>))
      done == CHOOSE d \in {combine_country_data(e.heap, ZipKeys(pairs, e.dataframes)) :
                               e \in {each}} : TRUE
  IN IF each.dataframes = <<>>
     THEN [heap |-> each.heap, exc |-> NoException, ret |-> None,
           log |-> counted \o <<Error(Msg("No valid data files found.", <<>>)),
                                 Page("st.error", "No valid data files found.")>>]
     ELSE IF done.exc # NoException
     THEN [heap |-> done.heap, exc |-> done.exc, ret |-> None,
           log |-> counted \o <<made>> \o done.log]
     ELSE IF done.ret = None \/ Empty(done.heap[done.ret])
     THEN [heap |-> done.heap, exc |-> NoException, ret |-> None,
           log |-> counted \o <<made>> \o done.log
                     \o <<Error(Msg("No valid data to display.", <<>>)),
                          Page("st.error", "No valid data to display.")>>]
     ELSE [heap |-> done.heap, exc |-> NoException, ret |-> done.ret,
           log |-> counted \o <<made>> \o done.log
                     \o <<Info(Msg("Data combined successfully.", <<>>))>>]

(* ------------------------------ calls ---------------------------------- *)

\* The mappings a caller can pass: up to MaxEntries entries with distinct
\* keys, in iteration order, each value one of the caller's objects.
Mappings ==
  UNION {{m \in [1..n -> [key : Keys, value : InputRefs]] :
            \A i, j \in 1..n : i # j => m[i].key # m[j].key} : n \in 0..MaxEntries}

\* The metrics lists a caller can pass: one to MaxMetrics different names.
MetricLists ==
  UNION {{m \in [1..n -> MetricNames] :
            \A i, j \in 1..n : i # j => m[i] # m[j]} : n \in 1..MaxMetrics}

\* The stats lists a caller can pass: the default, that of
\* test_custom_metrics_and_stats, and one with a name agg() does not know.
StatLists == {<<"mean", "median", "std">>, <<"mean", "max">>, <<"mean", "total">>}

\* The group columns a caller can pass: the default and that of
\* test_invalid_country_column.
CountryCols == {"country", "missing_col"}

Pending == [kind |-> "pending", ret |-> None, exc |-> NoException]
Returned(ref) == [kind |-> "return", ret |-> ref, exc |-> NoException]
Raised(exc) == [kind |-> "raise", ret |-> None, exc |-> exc]

\* The call made: the method, its arguments, and the caller's objects as they
\* were when it was made.
Call(op, country_data, df, metrics, stats, country_col, before) ==
  [op |-> op, country_data |-> country_data, df |-> df, metrics |-> metrics,
   stats |-> stats, country_col |-> country_col, before |-> before]
NoCall == Call("", <<>>, None, <<>>, <<>>, "", <<>>)

\* ComparisionUtils(): the constructor logs one line.
Init ==
  /\ heap \in [InputRefs -> InputObjects]
  /\ call = NoCall
  /\ outcome = Pending
  /\ log = <<Info(Msg("Comparsion Utility Class Initialized.", <<>>))>>

\* What is left on the heap when the call is over: the caller's objects and
\* the returned one; the working copies are unreachable.
AfterCall(h, ret) ==
  IF ret = None THEN SubSeq(h, 1, NumInputs)
  ELSE Append(SubSeq(h, 1, NumInputs), h[ret])

\* The outcome of a call that ended with `done`.
Outcome(done) ==
  IF done.exc # NoException THEN Raised(done.exc)
  ELSE IF done.ret = None THEN Returned(None)
  ELSE Returned(NumInputs + 1)

CombineCountryData ==
  /\ outcome = Pending
  /\ \E country_data \in Mappings :
       LET done == combine_country_data(heap, country_data)
       IN /\ call' = Call("combine_country_data", country_data, None, <<>>, <<>>, "", heap)
          /\ heap' = AfterCall(done.heap, done.ret)
          /\ log' = log \o done.log
          /\ outcome' = Outcome(done)

GenerateSummaryStats ==
  /\ outcome = Pending
  /\ \E df \in InputRefs, metrics \in MetricLists, stats \in StatLists,
        country_col \in CountryCols :
       LET done == generate_summary_stats(heap, df, metrics, stats, country_col)
       IN /\ call' = Call("generate_summary_stats", <<>>, df, metrics, stats,
                          country_col, heap)
          /\ heap' = AfterCall(done.heap, done.ret)
          /\ log' = log \o done.log
          /\ outcome' = Outcome(done)

LoadCsv ==
  /\ outcome = Pending
  /\ \E filepath \in Paths :
       LET done == load_csv(heap, filepath)
       IN /\ call' = [filepath |-> filepath]
                       @@ Call("load_csv", <<>>, None, <<>>, <<>>, "", heap)
          /\ heap' = AfterCall(done.heap, done.ret)
          /\ log' = log \o done.log
          /\ outcome' = Outcome(done)

Next == CombineCountryData \/ GenerateSummaryStats \/ LoadCsv

Spec == Init /\ [][Next]_vars

(* ------------------------- an analysis session ------------------------- *)

\* The site names of the dashboard.
SiteNames == {"Benin", "Togo", "Sierra Leone"}

\* The data file of a site.
SiteFile(site) ==
  CASE site = "Benin" -> "data/benin.csv"
    [] site = "Togo" -> "data/togo.csv"
    [] site = "Sierra Leone" -> "data/sierraleone.csv"

\* The mappings of site name to file path a session can start from: any
\* number of the sites, in any order, each with the path of its data file,
\* of no file, of a file of zero bytes or of a file with a header only.
SitePaths ==
  UNION {{m \in [1..n -> [key : {StrKey(site) : site \in SiteNames}, value : Paths]] :
            /\ \A i, j \in 1..n : i # j => m[i].key # m[j].key
            /\ \A i \in 1..n :
                 m[i].value \in {SiteFile(m[i].key.text), "data/missing.csv",
                                 "data/zero.csv", "data/header.csv"}}
         : n \in 0..Cardinality(SiteNames)}

\* The value columns perform_anova is asked about.
ValueCols == {"GHI", "DNI", "Comments", "missing_col"}

\* The place of the unified table among the session's objects.
Unified == 1

\* A session starts with no object; its log is that of the call just made.
SessionInit ==
  /\ heap = <<>>
  /\ call = NoCall
  /\ outcome = Pending
  /\ log = <<>>

\* The session's objects when a call on the unified table is over: the
\* unified table and what the call returned.
Kept(done) ==
  IF done.ret = None THEN <<done.heap[Unified]>>
  ELSE <<done.heap[Unified], done.heap[done.ret]>>
Ended(done) ==
  IF done.exc # NoException THEN Raised(done.exc)
  ELSE IF done.ret = None THEN Returned(None)
  ELSE Returned(Unified + 1)

\* main.py, line 18: the session builds its unified table.
LoadAndCombine ==
  /\ outcome = Pending
  /\ \E pairs \in SitePaths :
       LET done == load_and_combine_each_country_data(<<>>, pairs)
       IN /\ call' = Call("load_and_combine_each_country_data", pairs, None,
                          <<>>, <<>>, "", heap)
          /\ heap' = IF done.exc # NoException \/ done.ret = None THEN <<>>
                     ELSE <<done.heap[done.ret]>>
          /\ log' = done.log
          /\ outcome' = IF done.exc # NoException THEN Raised(done.exc)
                        ELSE IF done.ret = None THEN Returned(None)
                        ELSE Returned(Unified)

SummarizeUnified ==
  /\ heap # <<>>
  /\ \E metrics \in MetricLists, stats \in {<<"mean", "median", "std">>},
        country_col \in {"country"} :
       LET done == generate_summary_stats(<<heap[Unified]>>, Unified, metrics, stats,
                                          country_col)
       IN /\ call' = Call("generate_summary_stats", <<>>, Unified, metrics, stats,
                          country_col, <<heap[Unified]>>)
          /\ heap' = Kept(done)
          /\ log' = done.log
          /\ outcome' = Ended(done)

PerformAnova ==
  /\ heap # <<>>
  /\ \E value_col \in ValueCols, group_col \in CountryCols,
        interpret \in BOOLEAN, significant \in BOOLEAN :
       LET done == perform_anova(<<heap[Unified]>>, Unified, group_col, value_col,
                                 interpret, significant)
       IN /\ call' = [interpret |-> interpret]
                       @@ Call("perform_anova", <<>>, Unified, <<value_col>>, <<>>,
                               group_col, <<heap[Unified]>>)
          /\ heap' = Kept(done)
          /\ log' = done.log
          /\ outcome' = Ended(done)

BoxplotByCountry ==
  /\ heap # <<>>
  /\ \E group_col \in CountryCols :
       LET done == boxplot_by_country(<<heap[Unified]>>, Unified, group_col)
       IN /\ call' = Call("boxplot_by_country", <<>>, Unified, <<>>, <<>>, group_col,
                          <<heap[Unified]>>)
          /\ heap' = Kept(done)
          /\ log' = done.log
          /\ outcome' = Ended(done)

WriteSummaryTable ==
  /\ heap # <<>>
  /\ \E group_col \in CountryCols :
       LET done == write_summary_table(<<heap[Unified]>>, Unified, group_col)
       IN /\ call' = Call("write_summary_table", <<>>, Unified, <<>>, <<>>, group_col,
                          <<heap[Unified]>>)
          /\ heap' = Kept(done)
          /\ log' = done.log
          /\ outcome' = Ended(done)

SessionNext ==
  \/ LoadAndCombine
  \/ SummarizeUnified
  \/ PerformAnova
  \/ BoxplotByCountry
  \/ WriteSummaryTable

SpecSession == SessionInit /\ [][SessionNext]_vars

(* ------------------------------ properties ----------------------------- *)

Combined == call.op = "combine_country_data"
Summarized == call.op = "generate_summary_stats"

\* The entries of the mapping passed to combine_country_data, and the object
\* entry i held when the call was made.
Entries == call.country_data
SiteOf(i) == Entries[i].key.text
TableOf(i) == call.before[Entries[i].value]

KeyIsText(i) == Entries[i].key.type = "str"
ValueIsTable(i) == TableOf(i).type = "DataFrame"
IsEmptyTable(i) ==
  ValueIsTable(i) /\ (Len(TableOf(i).index) = 0 \/ Len(TableOf(i).columns) = 0)
Valid(i) == KeyIsText(i) /\ ValueIsTable(i) /\ ~IsEmptyTable(i)
AllValid == \A i \in DOMAIN Entries : Valid(i)

\* The first entry, in iteration order, that violates a precondition.
Offending == CHOOSE i \in DOMAIN Entries :
               ~Valid(i) /\ \A j \in 1..(i - 1) : Valid(j)

\* The number of rows of the tables of entries 1..n.
RECURSIVE RowsUpTo(_)
RowsUpTo(n) == IF n = 0 THEN 0 ELSE RowsUpTo(n - 1) + Len(TableOf(n).index)

\* The table a call returned.
Result == heap[outcome.ret]
ReturnedTable == outcome.kind = "return" /\ outcome.ret # None
SitesOfResult == {Result.data[r]["country"] : r \in DOMAIN Result.data}

\* The last record the call logged.
LastLog == log[Len(log)]

\* C1: for a mapping of one or more string site names to non-empty tables
\* (DataFrame.empty is false), combine_country_data returns a table with as
\* many rows as the inputs have together, whose 'country' column holds in
\* every row a non-null value and takes exactly the input site names.
C1_RowCountAndSites ==
  (Combined /\ Len(Entries) >= 1 /\ AllValid) =>
    /\ ReturnedTable
    /\ Len(Result.data) = RowsUpTo(Len(Entries))
    /\ Len(Result.index) = RowsUpTo(Len(Entries))
    /\ "country" \in Range(Result.columns)
    /\ \A r \in DOMAIN Result.data : Result.data[r]["country"].kind = "str"
    /\ SitesOfResult = {Str(SiteOf(i)) : i \in DOMAIN Entries}

\* Two valid tables of different sizes, one of which came with a 'country'
\* column of its own, were combined.
C1_Witness ==
  /\ Combined /\ Len(Entries) = 2 /\ AllValid /\ ReturnedTable
  /\ Len(TableOf(1).index) # Len(TableOf(2).index)
  /\ "country" \in Range(TableOf(1).columns)

\* C2: on success the rows of the output are those of the input tables, table
\* after table in the mapping's iteration order and in their original order
\* within a table, each tagged with its own table's site name, and the row
\* labels are 0..N-1.
C2_StableConcatenation ==
  (Combined /\ ReturnedTable) =>
    /\ Len(Result.data) = RowsUpTo(Len(Entries))
    /\ \A i \in DOMAIN Entries : \A j \in DOMAIN TableOf(i).data :
         LET row == Result.data[RowsUpTo(i - 1) + j]
         IN /\ row["country"] = Str(SiteOf(i))
            /\ \A c \in Range(TableOf(i).columns) \ {"country"} :
                 row[c] = TableOf(i).data[j][c]
    /\ Result.index = [k \in 1..RowsUpTo(Len(Entries)) |-> k - 1]

\* Two tables of two rows each, the first with labels 1..2, were combined.
C2_Witness ==
  /\ Combined /\ ReturnedTable /\ Len(Entries) = 2
  /\ Len(TableOf(1).index) = 2 /\ Len(TableOf(2).index) = 2
  /\ TableOf(1).index[1] = 1
  /\ Entries[1].value # Entries[2].value

\* The preconditions the entries of the mapping violate.
Violations ==
  {k \in {"key", "type", "empty"} :
     \E i \in DOMAIN Entries :
        \/ k = "key" /\ ~KeyIsText(i)
        \/ k = "type" /\ ~ValueIsTable(i)
        \/ k = "empty" /\ IsEmptyTable(i)}

RaisedWith(template) ==
  /\ outcome.kind = "raise"
  /\ outcome.exc.type = "ValueError"
  /\ outcome.exc.msg.template = template

\* C3: a mapping whose only violation is a non-string key raises the
\* site-name error, one whose only violation is a value that is no table
\* raises the table-type error, and one whose only violation is an empty
\* table raises the empty-table error, whose message names the site of the
\* (first) empty table.
C3_ErrorPerViolation ==
  Combined =>
    /\ Violations = {"key"} => RaisedWith("Country name must be a string.")
    /\ Violations = {"type"} => RaisedWith("Value must be a pandas DataFrame.")
    /\ Violations = {"empty"} =>
         /\ RaisedWith("DataFrame for {country} is empty.")
         /\ outcome.exc.msg.args = << <<SiteOf(Offending)>> >>

\* An empty table under a site name, after a valid entry, was rejected.
C3_Witness ==
  /\ Combined /\ Len(Entries) = 2 /\ Violations = {"empty"}
  /\ Valid(1) /\ Len(TableOf(2).index) = 0
  /\ outcome.kind = "raise"

\* C4: when any entry of the mapping violates a precondition, the call raises
\* and returns no table, wherever the offending entry stands.
C4_NoPartialMerge ==
  (Combined /\ ~AllValid) =>
    /\ outcome.kind = "raise"
    /\ outcome.ret = None
    /\ DOMAIN heap = InputRefs

\* The second entry was rejected after the first, valid, one had been copied
\* and tagged.
C4_Witness ==
  /\ Combined /\ Len(Entries) = 2 /\ Valid(1) /\ ~Valid(2)
  /\ outcome.kind = "raise"

\* C5 as stated: a mapping with the empty string as a key is rejected, and no
\* row of a returned table carries an empty site name.
C5_EmptyKeyRejected ==
  Combined =>
    /\ (\E i \in DOMAIN Entries : Entries[i].key = StrKey("")) => outcome.kind = "raise"
    /\ ReturnedTable => Str("") \notin SitesOfResult

\* C5 amended: a mapping with a key that is not a string is rejected, the
\* site-name error is raised for such a key only, and the empty string is
\* accepted like any string: the rows of a returned table carry the empty
\* site name exactly when the empty string is a key of the mapping.
C5_OnlyNonStringKeyRejected ==
  Combined =>
    /\ (\E i \in DOMAIN Entries : ~KeyIsText(i)) => outcome.kind = "raise"
    /\ RaisedWith("Country name must be a string.") =>
         \E i \in DOMAIN Entries : ~KeyIsText(i)
    /\ ReturnedTable =>
         (Str("") \in SitesOfResult <=>
            \E i \in DOMAIN Entries : Entries[i].key = StrKey(""))

\* A table under the empty string was combined and its rows carry the empty
\* site name.
C5_Witness ==
  /\ Combined /\ ReturnedTable
  /\ \E i \in DOMAIN Entries : Entries[i].key = StrKey("")
  /\ Str("") \in SitesOfResult

\* The failure a raising call reports names the site of entry i.
NamesSite(i) == <<SiteOf(i)>> \in Range(outcome.exc.msg.args)

C7_ColumnUnionWithMissing ==
  (Combined /\ ReturnedTable) =>
    /\ Range(Result.columns) =
         UNION {Range(TableOf(i).columns) : i \in DOMAIN Entries} \cup {"country"}
    /\ \A i \in DOMAIN Entries : \A j \in DOMAIN TableOf(i).data :
         \A c \in Range(Result.columns) \ {"country"} :
            LET cell == Result.data[RowsUpTo(i - 1) + j][c]
            IN IF c \in Range(TableOf(i).columns)
               THEN cell = TableOf(i).data[j][c]
               ELSE cell.kind = "nan" /\ cell # Num(0) /\ cell # Str("")

\* A table without 'DNI' was combined with one that has it, and one of its
\* GHI cells is 0.
C7_Witness ==
  /\ Combined /\ ReturnedTable /\ Len(Entries) = 2
  /\ "DNI" \notin Range(TableOf(1).columns)
  /\ "DNI" \in Range(TableOf(2).columns)
  /\ Result.data[1]["DNI"] = NaN
  /\ Result.data[1]["GHI"] = Num(0)

\* C8: after combine_country_data, whether it returned or raised, every
\* object the caller passed is as it was when the call was made: no input
\* table gained a 'country' column or changed a row, a column or a row label.
C8_InputsUnchanged ==
  Combined => \A r \in InputRefs : heap[r] = call.before[r]

\* The same table, which has no 'country' column, was combined under two
\* site names.
C8_Witness ==
  /\ Combined /\ ReturnedTable /\ Len(Entries) = 2
  /\ Entries[1].value = Entries[2].value
  /\ "country" \notin Range(heap[Entries[1].value].columns)
  /\ "country" \in Range(Result.columns)

\* The argument df of generate_summary_stats as it was when the call was made.
Table == call.before[call.df]
IsTable == Table.type = "DataFrame"
TableIsEmpty == Len(Table.index) = 0 \/ Len(Table.columns) = 0
HasGroupColumn == call.country_col \in Range(Table.columns)
AbsentMetrics == {m \in Range(call.metrics) : m \notin Range(Table.columns)}
InvalidInput ==
  ~IsTable \/ TableIsEmpty \/ ~HasGroupColumn \/ AbsentMetrics # {}

ReportsMissing(record) ==
  /\ record.level = "ERROR"
  /\ record.msg.template = "Metrics not found in DataFrame: {missing_metrics}"

ValidForSummary ==
  IsTable /\ ~TableIsEmpty /\ HasGroupColumn /\ AbsentMetrics = {}
UnknownStats == {st \in Range(call.stats) : st \notin {"mean", "median", "std", "max"}}

DistinctKeys ==
  {Table.data[i][call.country_col] : i \in DOMAIN Table.data} \ {NaN}

\* C11: on a table that passes validation, with recognised statistics,
\* generate_summary_stats returns a table of exactly one row per distinct
\* value of the group column, that value in an ordinary column of the row
\* (the row labels are 0..n-1), followed by one column named
\* "<metric>_<statistic>" per requested pair, metric by metric, and no other
\* column.
C11_OneRowPerKeyOneColumnPerPair ==
  (Summarized /\ ValidForSummary /\ UnknownStats = {}) =>
    /\ ReturnedTable
    /\ Len(Result.columns) = 1 + Len(call.metrics) * Len(call.stats)
    /\ Result.columns[1] = call.country_col
    /\ \A a \in DOMAIN call.metrics, b \in DOMAIN call.stats :
         Result.columns[1 + (a - 1) * Len(call.stats) + b]
           = FlatName(call.metrics[a], call.stats[b])
    /\ Len(Result.data) = Cardinality(DistinctKeys)
    /\ {Result.data[g][call.country_col] : g \in DOMAIN Result.data} = DistinctKeys
    /\ Result.index = [g \in DOMAIN Result.data |-> g - 1]
    /\ \A g \in DOMAIN Result.data : DOMAIN Result.data[g] = Range(Result.columns)

\* Two metrics and three statistics were summarized over a table that holds
\* rows of two sites: two rows of seven columns came back.
C11_Witness ==
  /\ Summarized /\ ValidForSummary
  /\ call.metrics = <<"DNI", "GHI">> /\ call.stats = <<"mean", "median", "std">>
  /\ ReturnedTable
  /\ Len(Result.data) = 2 /\ Len(Table.data) = 2
  /\ Len(Result.columns) = 7

Loaded == call.op = "load_csv"

\* C14: load_csv raises for no path: it returns a table, with the file's
\* header as columns and one row per line, when a file with a header line is
\* at the path, and None when nothing is at the path or what is there cannot
\* be read as CSV; the caller's objects are as they were.
C14_LoadNeverRaises ==
  Loaded =>
    /\ outcome.kind = "return"
    /\ \A ref \in InputRefs : heap[ref] = call.before[ref]
    /\ IF Disk(call.filepath).kind = "file" /\ Disk(call.filepath).header # <<>>
       THEN /\ ReturnedTable
            /\ Result.columns = Disk(call.filepath).header
            /\ Len(Result.data) = Len(Disk(call.filepath).lines)
       ELSE /\ outcome = Returned(None)
            /\ DOMAIN heap = InputRefs
            /\ LastLog.level = "ERROR"

\* The data directory was passed as the path: it exists, reading it fails,
\* and None came back.
C14_Witness ==
  /\ Loaded /\ call.filepath = "data"
  /\ Exists(call.filepath)
  /\ outcome = Returned(None)
  /\ LastLog.msg.template = "Failed to load data from {filepath}"

\* perform_anova was called: the table it was given, its columns of values
\* and of groups, and the sample of every group, in the order of the groups.
Tested == call.op = "perform_anova"
TestedTable == call.before[Unified]
ValueCol == call.metrics[1]
GroupCol == call.country_col
Samples ==
  IF {ValueCol, GroupCol} \subseteq Range(TestedTable.columns)
  THEN LET keys == GroupKeys(TestedTable, GroupCol)
       IN [g \in DOMAIN keys |-> Sample(TestedTable, GroupCol, keys[g], ValueCol)]
  ELSE <<>>
\* The samples of the groups that have a non-missing value.
NonEmptySamples == SelectSeq(Samples, LAMBDA sample : sample # <<>>)

\* C13: perform_anova raises nothing, and returns (None, None) whenever fewer
\* than two groups have a non-missing value in the value column.
C13_AbsencePairBelowTwoGroups ==
  Tested =>
    /\ outcome.kind = "return"
    /\ Len(NonEmptySamples) < 2 => Result = AnovaPair("none", <<>>)

\* C16: when two or more groups have a non-missing value in the value column
\* (numbers, and more values than groups), the pair perform_anova returns is
\* that of the F-test over exactly the samples of those groups, whatever
\* groups without a value the table also has.
C16_EmptyGroupsDiscarded ==
  (/\ Tested
   /\ Len(NonEmptySamples) >= 2
   /\ \A g \in DOMAIN Samples : \A i \in DOMAIN Samples[g] : Samples[g][i].kind = "num"
   /\ \E g \in DOMAIN Samples : Len(Samples[g]) > 1)
    => Result = AnovaPair("stat", NonEmptySamples)

\* C15: once the unified table is built, no call of the session changes it:
\* its columns, its cells and with them its column types stay what they are.
C15_UnifiedReadOnly ==
  [][heap # <<>> => heap'[Unified] = heap[Unified]]_vars

\* load_and_combine_each_country_data was called: the mapping it was given,
\* and whether the file of entry i loaded.
LoadedAndCombined == call.op = "load_and_combine_each_country_data"
Pairs == call.country_data
Succeeded(i) == load_csv(<<>>, Pairs[i].value).ret # None
\* The row holds, in the columns of the file of entry i, a row of that file.
FromFileOf(row, i) ==
  /\ Succeeded(i)
  /\ LET file == ReadCsv(Disk(Pairs[i].value))
     IN \E r \in DOMAIN file.data :
          \A c \in Range(file.columns) : row[c] = file.data[r][c]

\* C17: each row of the table load_and_combine_each_country_data returns is
\* labelled with the site whose file the row was loaded from, and the labels
\* are exactly the sites whose file loaded.
C17_RowsLabelledBySource ==
  (LoadedAndCombined /\ ReturnedTable) =>
    /\ \A r \in DOMAIN Result.data :
         \E i \in DOMAIN Pairs :
           /\ Result.data[r]["country"] = Str(Pairs[i].key.text)
           /\ FromFileOf(Result.data[r], i)
    /\ SitesOfResult = {Str(Pairs[i].key.text) : i \in {j \in DOMAIN Pairs : Succeeded(j)}}

\* The message of the first check entry i fails, the checks taken in the
\* order key type, value type, emptiness.
FirstFailure(i) ==
  IF ~KeyIsText(i) THEN "Country name must be a string."
  ELSE IF ~ValueIsTable(i) THEN "Value must be a pandas DataFrame."
  ELSE "DataFrame for {country} is empty."

\* C18: the error combine_country_data raises is that of the first failing
\* check of the first entry, in iteration order, that fails one: an entry
\* with a non-string key and an empty table yields the site-name error, and
\* no later entry's violation is reported in place of an earlier entry's.
C18_FirstFailingCheckWins ==
  (Combined /\ ~AllValid) =>
    /\ RaisedWith(FirstFailure(Offending))
    /\ \A i \in DOMAIN Entries :
         (~KeyIsText(i) /\ IsEmptyTable(i) /\ \A j \in 1..(i - 1) : Valid(j)) =>
           RaisedWith("Country name must be a string.")
    /\ \A i \in DOMAIN Entries :
         (i > Offending /\ ~Valid(i) /\ FirstFailure(i) # FirstFailure(Offending)) =>
           ~RaisedWith(FirstFailure(i))

\* The first entry has a non-string key and an empty table, the second a
\* value that is no table: the site-name error was raised.
C18_Witness ==
  /\ Combined /\ Len(Entries) = 2
  /\ ~KeyIsText(1) /\ IsEmptyTable(1)
  /\ KeyIsText(2) /\ ~ValueIsTable(2)
  /\ RaisedWith("Country name must be a string.")

====
